---- MODULE Spec2Model ----
(***************************************************************************)
(* Model of crondock's entrypoint.py: loading of the RS_CRON_* job         *)
(* definitions, the endless scheduling loop of execute_cron_jobs, the      *)
(* ThreadPoolExecutor that runs run_script, and the SIGTERM/SIGINT         *)
(* handler.                                                                *)
(*                                                                         *)
(* Time is the wall clock in whole cron units (minutes).  A cron           *)
(* expression is modelled by the number in its minute field: p in 1..59    *)
(* stands for "*/p * * * *", a number above 59 for an expression croniter  *)
(* rejects.  The clock stays below one hour, so the occurrences of p are   *)
(* the multiples of p.  The main thread is cut at the points where the     *)
(* signal handler (which raises SystemExit in the main thread between two  *)
(* bytecodes) or a worker thread can interleave.                           *)
(***************************************************************************)
EXTENDS Integers, Sequences, FiniteSets, TLC

\* ---- bounds of the model ------------------------------------------------
NJobs == 2          \* number of RS_CRON_* environment variables
MaxTime == 5        \* the clock stops advancing here
MaxWorkers == 2     \* max_workers of the ThreadPoolExecutor

\* ---- inputs -------------------------------------------------------------
ValidCrons == {2, 3}            \* "*/2 * * * *", "*/3 * * * *"
BadCron == 70                   \* "70 * * * *": minute field out of range
CronExprs == ValidCrons \cup {BadCron}

VARIABLES
  now,                    \* wall clock, datetime.now()
  environ,                \* the RS_CRON_* definitions: sequence of cron expressions
  pc,                     \* position of the main thread
  k,                      \* load_cron_jobs: index of the environment variable
  cron_jobs,              \* the list built by load_cron_jobs
  next_job,               \* execute_cron_jobs: index of the job chosen at line 184
  current_time_timestamp, \* execute_cron_jobs: time sampled at line 192
  i,                      \* execute_cron_jobs: index of `job` in the for loop
  sleep_duration,         \* execute_cron_jobs: line 210
  wake_at,                \* instant at which the sleep of line 211 completes
  queue,                  \* executor work queue (submitted, not started)
  running,                \* per script: number of commands executing
  signum,                 \* 0, or 1 once the handler has run for a signal
  interrupted_at,         \* pc at which the handler raised SystemExit
  exit_code,              \* process exit status, -1 while alive
  last_log,               \* last entry logged by the main thread
  last_run,               \* last run_script call that returned or raised
  cron_calls,             \* expressions convert_cron_to_timestamp was called with
  submitted_in_cycle,     \* history: per job, submits since line 192
  due_at_wake,            \* history: next_execution_timestamp of each job at line 192
  woken                   \* history: a sleep of line 211 has completed

vars == <<now, environ, pc, k, cron_jobs, next_job, current_time_timestamp, i,
          sleep_duration, wake_at, queue, running, signum, interrupted_at,
          exit_code, last_log, last_run, cron_calls, submitted_in_cycle,
          due_at_wake, woken>>

mainVars == <<pc, k, cron_jobs, next_job, current_time_timestamp, i,
              sleep_duration, wake_at, last_log, cron_calls,
              submitted_in_cycle, due_at_wake, woken>>

\* ---- helpers ------------------------------------------------------------
Max(a, b) == IF a >= b THEN a ELSE b

MinOf(S) == CHOOSE x \in S : \A y \in S : x <= y

Jobs == 1..Len(cron_jobs)

Due(j) == cron_jobs[j].next_execution_timestamp

NoLog == [kind |-> "none", job |-> 0, ts |-> 0]

NoRun == [outcome |-> "none", error_logged |-> FALSE]

\* variant of get_next: an occurrence at start itself is returned
get_next_inclusive(cron_expression, start) ==
  ((start + cron_expression - 1) \div cron_expression) * cron_expression

\* croniter(expr, start).get_next(): earliest occurrence strictly after start
get_next(cron_expression, start) == ((start \div cron_expression) + 1) * cron_expression

convert_cron_to_timestamp(cron_expression) == get_next(cron_expression, now)

is_valid_cron(cron_expression) == cron_expression \in 1..59

\* min(cron_jobs, key=...) returns the first job with the smallest timestamp
FirstMinJob == MinOf({j \in Jobs : \A m \in Jobs : Due(j) <= Due(m)})

\* min(job["next_execution_timestamp"] for job in cron_jobs)
next_execution_time == MinOf({Due(j) : j \in Jobs})

InLoop == pc \in {"sample", "check", "resched", "sleep"}

LoopStopped == pc \in {"shutdown", "exited"}

RECURSIVE SumUpTo(_, _)
SumUpTo(f, n) == IF n = 0 THEN 0 ELSE f[n] + SumUpTo(f, n - 1)

\* worker threads occupied by a command
NumRunning == SumUpTo(running, NJobs)

TypeOK == /\ now \in 0..MaxTime
          /\ pc \in {"load", "main", "first", "sample", "check", "resched",
                     "sleep", "shutdown", "exited"}

Init ==
  /\ now = 0
  /\ environ \in [1..NJobs -> CronExprs]
  /\ pc = "load"
  /\ k = 1
  /\ cron_jobs = <<>>
  /\ next_job = 0
  /\ current_time_timestamp = 0
  /\ i = 0
  /\ sleep_duration = 0
  /\ wake_at = 0
  /\ queue = <<>>
  /\ running = [s \in 1..NJobs |-> 0]
  /\ signum = 0
  /\ interrupted_at = "none"
  /\ exit_code = -1
  /\ last_log = NoLog
  /\ last_run = NoRun
  /\ cron_calls = {}
  /\ submitted_in_cycle = [s \in 1..NJobs |-> 0]
  /\ due_at_wake = [s \in 1..NJobs |-> 0]
  /\ woken = FALSE

\* ---- the clock ----------------------------------------------------------
\* Once the loop has been left nothing reads the clock any more, so it is
\* advanced only while the main thread is loading or looping.
Tick ==
  /\ now < MaxTime
  /\ pc \notin {"shutdown", "exited"}
  /\ now' = now + 1
  /\ UNCHANGED <<environ, mainVars, queue, running, signum, interrupted_at,
                 exit_code, last_run>>

\* ---- load_cron_jobs, one iteration of the for loop per step -------------
LoadSkip ==
  /\ pc = "load" /\ k <= NJobs
  /\ ~is_valid_cron(environ[k])
  /\ last_log' = [kind |-> "invalid", job |-> k, ts |-> 0]
  /\ k' = k + 1
  /\ UNCHANGED <<now, environ, pc, cron_jobs, next_job, current_time_timestamp,
                 i, sleep_duration, wake_at, queue, running, signum,
                 interrupted_at, exit_code, last_run, cron_calls,
                 submitted_in_cycle, due_at_wake, woken>>

\* variant of LoadAppend: the definition is taken without validation
LoadAppendUnchecked ==
  /\ pc = "load" /\ k <= NJobs
  /\ cron_calls' = cron_calls \cup {environ[k]}
  /\ cron_jobs' = Append(cron_jobs,
                     [script |-> k,
                      cron_expression |-> environ[k],
                      next_execution_timestamp |-> convert_cron_to_timestamp(environ[k])])
  /\ last_log' = [kind |-> "loaded", job |-> k, ts |-> 0]
  /\ k' = k + 1
  /\ UNCHANGED <<now, environ, pc, next_job, current_time_timestamp, i,
                 sleep_duration, wake_at, queue, running, signum,
                 interrupted_at, exit_code, last_run, submitted_in_cycle,
                 due_at_wake, woken>>

LoadAppend ==
  /\ pc = "load" /\ k <= NJobs
  /\ is_valid_cron(environ[k])
  /\ cron_calls' = cron_calls \cup {environ[k]}
  /\ cron_jobs' = Append(cron_jobs,
                     [script |-> k,
                      cron_expression |-> environ[k],
                      next_execution_timestamp |-> convert_cron_to_timestamp(environ[k])])
  /\ last_log' = [kind |-> "loaded", job |-> k, ts |-> 0]
  /\ k' = k + 1
  /\ UNCHANGED <<now, environ, pc, next_job, current_time_timestamp, i,
                 sleep_duration, wake_at, queue, running, signum,
                 interrupted_at, exit_code, last_run, submitted_in_cycle,
                 due_at_wake, woken>>

LoadReturn ==
  /\ pc = "load" /\ k > NJobs
  /\ pc' = "main"
  /\ UNCHANGED <<now, environ, k, cron_jobs, next_job, current_time_timestamp,
                 i, sleep_duration, wake_at, queue, running, signum,
                 interrupted_at, exit_code, last_log, last_run, cron_calls,
                 submitted_in_cycle, due_at_wake, woken>>

\* ---- __main__, lines 230-235 --------------------------------------------
\* variant of MainProceed: the test of line 230 is lost
MainProceedUnchecked ==
  /\ pc = "main"
  /\ pc' = "first"
  /\ last_log' = [kind |-> "proceeding", job |-> 0, ts |-> 0]
  /\ UNCHANGED <<now, environ, k, cron_jobs, next_job, current_time_timestamp,
                 i, sleep_duration, wake_at, queue, running, signum,
                 interrupted_at, exit_code, last_run, cron_calls,
                 submitted_in_cycle, due_at_wake, woken>>

MainProceed ==
  /\ pc = "main" /\ cron_jobs # <<>>
  /\ pc' = "first"
  /\ last_log' = [kind |-> "proceeding", job |-> 0, ts |-> 0]
  /\ UNCHANGED <<now, environ, k, cron_jobs, next_job, current_time_timestamp,
                 i, sleep_duration, wake_at, queue, running, signum,
                 interrupted_at, exit_code, last_run, cron_calls,
                 submitted_in_cycle, due_at_wake, woken>>

MainNoJobs ==
  /\ pc = "main" /\ cron_jobs = <<>>
  /\ last_log' = [kind |-> "no_valid_jobs", job |-> 0, ts |-> 0]
  /\ exit_code' = 1
  /\ pc' = "exited"
  /\ UNCHANGED <<now, environ, k, cron_jobs, next_job, current_time_timestamp,
                 i, sleep_duration, wake_at, queue, running, signum,
                 interrupted_at, last_run, cron_calls, submitted_in_cycle,
                 due_at_wake, woken>>

\* ---- execute_cron_jobs ---------------------------------------------------
\* variant of FirstExecution: the timestamps are computed anew at loop entry
FirstExecutionRecompute ==
  /\ pc = "first"
  /\ cron_jobs' = [j \in Jobs |->
                     [cron_jobs[j] EXCEPT !.next_execution_timestamp =
                        convert_cron_to_timestamp(cron_jobs[j].cron_expression)]]
  /\ next_job' = FirstMinJob
  /\ last_log' = [kind |-> "first", job |-> cron_jobs[FirstMinJob].script,
                  ts |-> Due(FirstMinJob)]
  /\ pc' = "sample"
  /\ UNCHANGED <<now, environ, k, current_time_timestamp, i,
                 sleep_duration, wake_at, queue, running, signum,
                 interrupted_at, exit_code, last_run, cron_calls,
                 submitted_in_cycle, due_at_wake, woken>>

\* lines 184-189: pick next_job, log the first execution, create the executor
FirstExecution ==
  /\ pc = "first"
  /\ next_job' = FirstMinJob
  /\ last_log' = [kind |-> "first", job |-> cron_jobs[FirstMinJob].script,
                  ts |-> Due(FirstMinJob)]
  /\ pc' = "sample"
  /\ UNCHANGED <<now, environ, k, cron_jobs, current_time_timestamp, i,
                 sleep_duration, wake_at, queue, running, signum,
                 interrupted_at, exit_code, last_run, cron_calls,
                 submitted_in_cycle, due_at_wake, woken>>

\* variant of SampleTime: the scan starts at the second job of the list
SampleTimeFromSecond ==
  /\ pc = "sample"
  /\ current_time_timestamp' = now
  /\ i' = 2
  /\ submitted_in_cycle' = [s \in 1..NJobs |-> 0]
  /\ due_at_wake' = [s \in 1..NJobs |-> IF s \in Jobs THEN Due(s) ELSE 0]
  /\ pc' = "check"
  /\ UNCHANGED <<now, environ, k, cron_jobs, next_job, sleep_duration, wake_at,
                 queue, running, signum, interrupted_at, exit_code, last_log,
                 last_run, cron_calls, woken>>

\* line 192, and the start of the for loop of line 194
SampleTime ==
  /\ pc = "sample"
  /\ current_time_timestamp' = now
  /\ i' = 1
  /\ submitted_in_cycle' = [s \in 1..NJobs |-> 0]
  /\ due_at_wake' = [s \in 1..NJobs |-> IF s \in Jobs THEN Due(s) ELSE 0]
  /\ pc' = "check"
  /\ UNCHANGED <<now, environ, k, cron_jobs, next_job, sleep_duration, wake_at,
                 queue, running, signum, interrupted_at, exit_code, last_log,
                 last_run, cron_calls, woken>>

\* variant of SkipJob: the due test of line 197 is lost
SkipJobAlways ==
  /\ pc = "check" /\ i <= Len(cron_jobs)
  /\ i' = i + 1
  /\ UNCHANGED <<now, environ, pc, k, cron_jobs, next_job,
                 current_time_timestamp, sleep_duration, wake_at, queue,
                 running, signum, interrupted_at, exit_code, last_log,
                 last_run, cron_calls, submitted_in_cycle, due_at_wake, woken>>

\* lines 195-197, condition false: the job is left alone
SkipJob ==
  /\ pc = "check" /\ i <= Len(cron_jobs)
  /\ ~(current_time_timestamp >= Due(i))
  /\ i' = i + 1
  /\ UNCHANGED <<now, environ, pc, k, cron_jobs, next_job,
                 current_time_timestamp, sleep_duration, wake_at, queue,
                 running, signum, interrupted_at, exit_code, last_log,
                 last_run, cron_calls, submitted_in_cycle, due_at_wake, woken>>

\* variant of SubmitJob: every job of the list is submitted, due or not
SubmitJobUnguarded ==
  /\ pc = "check" /\ i <= Len(cron_jobs)
  /\ queue' = Append(queue, cron_jobs[i].script)
  /\ submitted_in_cycle' = [submitted_in_cycle EXCEPT ![i] = @ + 1]
  /\ pc' = "resched"
  /\ UNCHANGED <<now, environ, k, cron_jobs, next_job, current_time_timestamp,
                 i, sleep_duration, wake_at, running, signum, interrupted_at,
                 exit_code, last_log, last_run, cron_calls, due_at_wake, woken>>

\* variant of SubmitJob: the submit waits until no command is executing
SubmitJobBlocking ==
  /\ pc = "check" /\ i <= Len(cron_jobs)
  /\ current_time_timestamp >= Due(i)
  /\ NumRunning = 0
  /\ queue' = Append(queue, cron_jobs[i].script)
  /\ submitted_in_cycle' = [submitted_in_cycle EXCEPT ![i] = @ + 1]
  /\ pc' = "resched"
  /\ UNCHANGED <<now, environ, k, cron_jobs, next_job, current_time_timestamp,
                 i, sleep_duration, wake_at, running, signum, interrupted_at,
                 exit_code, last_log, last_run, cron_calls, due_at_wake, woken>>

\* variant of SubmitJob: a job whose earlier run has not finished is held back
SubmitJobNoOverlap ==
  /\ pc = "check" /\ i <= Len(cron_jobs)
  /\ current_time_timestamp >= Due(i)
  /\ running[cron_jobs[i].script] = 0
  /\ queue' = Append(queue, cron_jobs[i].script)
  /\ submitted_in_cycle' = [submitted_in_cycle EXCEPT ![i] = @ + 1]
  /\ pc' = "resched"
  /\ UNCHANGED <<now, environ, k, cron_jobs, next_job, current_time_timestamp,
                 i, sleep_duration, wake_at, running, signum, interrupted_at,
                 exit_code, last_log, last_run, cron_calls, due_at_wake, woken>>

\* lines 195-199, condition true: executor.submit(run_script, ...)
SubmitJob ==
  /\ pc = "check" /\ i <= Len(cron_jobs)
  /\ current_time_timestamp >= Due(i)
  /\ queue' = Append(queue, cron_jobs[i].script)
  /\ submitted_in_cycle' = [submitted_in_cycle EXCEPT ![i] = @ + 1]
  /\ pc' = "resched"
  /\ UNCHANGED <<now, environ, k, cron_jobs, next_job, current_time_timestamp,
                 i, sleep_duration, wake_at, running, signum, interrupted_at,
                 exit_code, last_log, last_run, cron_calls, due_at_wake, woken>>

\* variant of Reschedule: the next occurrence is counted from the old due time
RescheduleFromStale ==
  /\ pc = "resched"
  /\ cron_calls' = cron_calls \cup {cron_jobs[i].cron_expression}
  /\ cron_jobs' = [cron_jobs EXCEPT ![i].next_execution_timestamp =
                     get_next(cron_jobs[i].cron_expression, Due(i))]
  /\ last_log' = [kind |-> "next", job |-> cron_jobs'[next_job].script,
                  ts |-> cron_jobs'[next_job].next_execution_timestamp]
  /\ i' = i + 1
  /\ pc' = "check"
  /\ UNCHANGED <<now, environ, k, next_job, current_time_timestamp,
                 sleep_duration, wake_at, queue, running, signum,
                 interrupted_at, exit_code, last_run, submitted_in_cycle,
                 due_at_wake, woken>>

\* variant of Reschedule: every job of the list gets a new timestamp
RescheduleAll ==
  /\ pc = "resched"
  /\ cron_calls' = cron_calls \cup {cron_jobs[j].cron_expression : j \in Jobs}
  /\ cron_jobs' = [j \in Jobs |->
                     [cron_jobs[j] EXCEPT !.next_execution_timestamp =
                        convert_cron_to_timestamp(cron_jobs[j].cron_expression)]]
  /\ last_log' = [kind |-> "next", job |-> cron_jobs'[next_job].script,
                  ts |-> cron_jobs'[next_job].next_execution_timestamp]
  /\ i' = i + 1
  /\ pc' = "check"
  /\ UNCHANGED <<now, environ, k, next_job, current_time_timestamp,
                 sleep_duration, wake_at, queue, running, signum,
                 interrupted_at, exit_code, last_run, submitted_in_cycle,
                 due_at_wake, woken>>

\* lines 202-206: plan the next execution and log it
Reschedule ==
  /\ pc = "resched"
  /\ cron_calls' = cron_calls \cup {cron_jobs[i].cron_expression}
  /\ cron_jobs' = [cron_jobs EXCEPT ![i].next_execution_timestamp =
                     convert_cron_to_timestamp(cron_jobs[i].cron_expression)]
  /\ last_log' = [kind |-> "next", job |-> cron_jobs'[next_job].script,
                  ts |-> cron_jobs'[next_job].next_execution_timestamp]
  /\ i' = i + 1
  /\ pc' = "check"
  /\ UNCHANGED <<now, environ, k, next_job, current_time_timestamp,
                 sleep_duration, wake_at, queue, running, signum,
                 interrupted_at, exit_code, last_run, submitted_in_cycle,
                 due_at_wake, woken>>

\* variant of StartSleep: the duration is taken to the latest due time
StartSleepUntilMax ==
  /\ pc = "check" /\ i > Len(cron_jobs)
  /\ sleep_duration' = (CHOOSE x \in {Due(j) : j \in Jobs} :
                           \A j \in Jobs : Due(j) <= x) - current_time_timestamp
  /\ wake_at' = now + Max(0, sleep_duration')
  /\ pc' = "sleep"
  /\ UNCHANGED <<now, environ, k, cron_jobs, next_job, current_time_timestamp,
                 i, queue, running, signum, interrupted_at, exit_code,
                 last_log, last_run, cron_calls, submitted_in_cycle,
                 due_at_wake, woken>>

\* lines 209-211: the for loop is over; compute the duration and call sleep
StartSleep ==
  /\ pc = "check" /\ i > Len(cron_jobs)
  /\ sleep_duration' = next_execution_time - current_time_timestamp
  /\ wake_at' = now + Max(0, sleep_duration')
  /\ pc' = "sleep"
  /\ UNCHANGED <<now, environ, k, cron_jobs, next_job, current_time_timestamp,
                 i, queue, running, signum, interrupted_at, exit_code,
                 last_log, last_run, cron_calls, submitted_in_cycle,
                 due_at_wake, woken>>

\* variant of Wake: the sleep returns one unit before the duration is over
WakeEarly ==
  /\ pc = "sleep"
  /\ now >= wake_at - 1
  /\ pc' = "sample"
  /\ sleep_duration' = 0
  /\ wake_at' = 0
  /\ woken' = TRUE
  /\ UNCHANGED <<now, environ, k, cron_jobs, next_job, current_time_timestamp,
                 i, queue, running, signum,
                 interrupted_at, exit_code, last_log, last_run, cron_calls,
                 submitted_in_cycle, due_at_wake>>

\* sleep() returns once the requested duration has elapsed (or later).  The
\* duration is not read again before line 210 overwrites it, so it is cleared.
Wake ==
  /\ pc = "sleep"
  /\ now >= wake_at
  /\ pc' = "sample"
  /\ sleep_duration' = 0
  /\ wake_at' = 0
  /\ woken' = TRUE
  /\ UNCHANGED <<now, environ, k, cron_jobs, next_job, current_time_timestamp,
                 i, queue, running, signum,
                 interrupted_at, exit_code, last_log, last_run, cron_calls,
                 submitted_in_cycle, due_at_wake>>

\* ---- signal_handler ------------------------------------------------------
SIGINT == 2
SIGTERM == 15

\* variant of signal_handler: the handler logs and returns
signal_handler_log_only(sig) ==
  /\ signum = 0
  /\ pc # "exited"
  /\ sig \in {SIGINT, SIGTERM}
  /\ signum' = 1
  /\ interrupted_at' = pc
  /\ last_log' = [kind |-> "signal", job |-> 0, ts |-> 0]
  /\ UNCHANGED <<now, environ, pc, exit_code, k, cron_jobs, next_job,
                 current_time_timestamp, i, sleep_duration, wake_at, queue,
                 running, last_run, cron_calls, submitted_in_cycle, due_at_wake, woken>>

\* The handler runs in the main thread wherever that thread is, logs, and
\* exit(1) raises SystemExit there.  Inside the `with` block of line 189 the
\* exception first passes through ThreadPoolExecutor.__exit__.
signal_handler(sig) ==
  /\ signum = 0
  /\ pc # "exited"
  /\ sig \in {SIGINT, SIGTERM}
  /\ signum' = 1
  /\ interrupted_at' = pc
  /\ last_log' = [kind |-> "signal", job |-> 0, ts |-> 0]
  /\ IF InLoop
       THEN pc' = "shutdown" /\ exit_code' = exit_code
       ELSE pc' = "exited" /\ exit_code' = 1
  /\ UNCHANGED <<now, environ, k, cron_jobs, next_job, current_time_timestamp,
                 i, sleep_duration, wake_at, queue, running, last_run,
                 cron_calls, submitted_in_cycle, due_at_wake, woken>>

\* variant of ProcessExit: the executor is left without waiting
ProcessExitNoWait ==
  /\ pc = "shutdown"
  /\ exit_code' = 1
  /\ pc' = "exited"
  /\ UNCHANGED <<now, environ, k, cron_jobs, next_job, current_time_timestamp,
                 i, sleep_duration, wake_at, queue, running, signum,
                 interrupted_at, last_log, last_run, cron_calls,
                 submitted_in_cycle, due_at_wake, woken>>

\* variant of ProcessExit: the queued runs are cancelled, the running awaited
ProcessExitCancelsQueue ==
  /\ pc = "shutdown"
  /\ NumRunning = 0
  /\ queue' = <<>>
  /\ exit_code' = 1
  /\ pc' = "exited"
  /\ UNCHANGED <<now, environ, k, cron_jobs, next_job, current_time_timestamp,
                 i, sleep_duration, wake_at, running, signum,
                 interrupted_at, last_log, last_run, cron_calls,
                 submitted_in_cycle, due_at_wake, woken>>

\* ThreadPoolExecutor.__exit__ is shutdown(wait=True): it returns when the
\* work queue is drained and every worker has finished; then the process ends
ProcessExit ==
  /\ pc = "shutdown"
  /\ queue = <<>>
  /\ NumRunning = 0
  /\ exit_code' = 1
  /\ pc' = "exited"
  /\ UNCHANGED <<now, environ, k, cron_jobs, next_job, current_time_timestamp,
                 i, sleep_duration, wake_at, queue, running, signum,
                 interrupted_at, last_log, last_run, cron_calls,
                 submitted_in_cycle, due_at_wake, woken>>

\* ---- run_script on a worker thread --------------------------------------
\* variant of WorkerFree: a new thread is started for every work item
WorkerFreeUnbounded ==
  /\ pc # "exited"
  /\ queue # <<>>

\* a free worker takes the oldest work item
WorkerFree ==
  /\ pc # "exited"
  /\ queue # <<>>
  /\ NumRunning < MaxWorkers

\* variant of RunScriptNotFound: the error is raised into the scheduling loop
RunScriptNotFoundRaises ==
  /\ WorkerFree
  /\ queue' = Tail(queue)
  /\ last_run' = [outcome |-> "not_found", error_logged |-> TRUE]
  /\ pc' = "shutdown"
  /\ UNCHANGED <<now, environ, k, cron_jobs, next_job, current_time_timestamp,
                 i, sleep_duration, wake_at, last_log, cron_calls,
                 submitted_in_cycle, due_at_wake, running, signum,
                 interrupted_at, exit_code, woken>>

\* line 114 false, line 131
RunScriptNotFound ==
  /\ WorkerFree
  /\ queue' = Tail(queue)
  /\ last_run' = [outcome |-> "not_found", error_logged |-> TRUE]
  /\ UNCHANGED <<now, environ, mainVars, running, signum, interrupted_at, exit_code>>

\* lines 116-120 find no interpreter, line 129
RunScriptUnsupported ==
  /\ WorkerFree
  /\ queue' = Tail(queue)
  /\ last_run' = [outcome |-> "unsupported", error_logged |-> TRUE]
  /\ UNCHANGED <<now, environ, mainVars, running, signum, interrupted_at, exit_code>>

\* lines 122-127: "Running script" is logged, subprocess.run raises (the
\* interpreter cannot be started); the exception ends up in the unread Future
RunScriptLaunchFailed ==
  /\ WorkerFree
  /\ queue' = Tail(queue)
  /\ last_run' = [outcome |-> "launch_failed", error_logged |-> FALSE]
  /\ UNCHANGED <<now, environ, mainVars, running, signum, interrupted_at, exit_code>>

\* lines 122-127: "Running script" is logged, subprocess.run starts the command
RunScriptLaunch ==
  /\ WorkerFree
  /\ queue' = Tail(queue)
  /\ running' = [running EXCEPT ![Head(queue)] = @ + 1]
  /\ UNCHANGED <<now, environ, mainVars, signum, interrupted_at, exit_code, last_run>>

\* subprocess.run returns; the return code is not looked at
SubprocessExit(s, code) ==
  /\ pc # "exited"
  /\ running[s] > 0
  /\ running' = [running EXCEPT ![s] = @ - 1]
  /\ last_run' = [outcome |-> IF code = 0 THEN "ok" ELSE "nonzero",
                  error_logged |-> FALSE]
  /\ UNCHANGED <<now, environ, mainVars, queue, signum, interrupted_at, exit_code>>

SubprocessSuccess == \E s \in 1..NJobs : SubprocessExit(s, 0)

SubprocessFailure == \E s \in 1..NJobs : SubprocessExit(s, 1)

ReceiveSignal == \E sig \in {SIGINT, SIGTERM} : signal_handler(sig)

\* ---- specification -------------------------------------------------------
MainThread ==
  \/ LoadSkip \/ LoadAppend \/ LoadReturn
  \/ MainProceed \/ MainNoJobs
  \/ FirstExecution \/ SampleTime \/ SkipJob \/ SubmitJob \/ Reschedule
  \/ StartSleep \/ Wake
  \/ ProcessExit

Workers ==
  \/ RunScriptNotFound \/ RunScriptUnsupported \/ RunScriptLaunchFailed
  \/ RunScriptLaunch \/ SubprocessSuccess \/ SubprocessFailure

Next == Tick \/ MainThread \/ Workers \/ ReceiveSignal

Spec == Init /\ [][Next]_vars

\* a worker takes a work item and calls run_script
StartRun ==
  \/ RunScriptNotFound \/ RunScriptUnsupported \/ RunScriptLaunchFailed
  \/ RunScriptLaunch

\* a command that is executing ends
SubprocessEnds == SubprocessSuccess \/ SubprocessFailure

\* The executor does not look at the cron expressions, so the runs of the fair
\* specification draw the definitions from one valid and the invalid one.
FairCrons == {2, BadCron}

FairInit == Init /\ \A s \in 1..NJobs : environ[s] \in FairCrons

\* Worker threads are scheduled by the operating system: a worker that can
\* take a work item does so.  The commands themselves are assumed to end.
FairSpec ==
  FairInit /\ [][Next]_vars /\ WF_vars(StartRun) /\ WF_vars(SubprocessEnds)

\* ---- properties -----------------------------------------------------------
\* a step that appends script s to the executor's work queue
Submits(s) == /\ Len(queue') = Len(queue) + 1
              /\ queue'[Len(queue')] = s

\* C1: whenever a job is submitted to the executor, the time sampled at the
\* start of the cycle is at or after that job's next_execution_timestamp as it
\* stood before the submit.
C1_NeverBeforeDue ==
  [][\A s \in 1..NJobs :
       Submits(s) =>
         \E j \in Jobs : /\ cron_jobs[j].script = s
                         /\ current_time_timestamp >= Due(j)]_vars

\* a job has just been submitted and its timestamp is not yet replaced
C1_Witness ==
  /\ pc = "resched"
  /\ queue # <<>>
  /\ queue[Len(queue)] = cron_jobs[i].script
  /\ current_time_timestamp >= Due(i)

C3_NoBacklog ==
  \A j \in Jobs :
    /\ submitted_in_cycle[j] <= 1
    /\ pc = "sleep" =>
         submitted_in_cycle[j] =
           (IF due_at_wake[j] <= current_time_timestamp THEN 1 ELSE 0)
    /\ (pc \in {"check", "sleep"} /\ submitted_in_cycle[j] = 1)
         => Due(j) > current_time_timestamp

\* a job was dispatched once in a wake that came after its due occurrence and
\* after the occurrence following it
C3_Witness ==
  /\ pc = "sleep"
  /\ \E j \in Jobs :
       /\ current_time_timestamp >
            due_at_wake[j] + cron_jobs[j].cron_expression
       /\ submitted_in_cycle[j] = 1

\* C4: the timestamp written after a dispatch is the earliest occurrence of
\* the job's expression strictly after the clock read by the recomputation,
\* hence after the cycle's sampled time; it is fixed by the expression and
\* that clock value alone, whatever the old timestamp was.
C4_NextDueAfterNow ==
  [][(pc = "resched" /\ pc' = "check") =>
       LET p == cron_jobs[i].cron_expression
           d == cron_jobs'[i].next_execution_timestamp
       IN /\ d > now
          /\ now >= current_time_timestamp
          /\ d % p = 0
          /\ d - now <= p]_vars

\* a rescheduled job whose new timestamp skips an occurrence that was missed
C4_Witness ==
  /\ pc = "check"
  /\ \E j \in Jobs :
       /\ submitted_in_cycle[j] = 1
       /\ Due(j) > now
       /\ Due(j) >= due_at_wake[j] + 2 * cron_jobs[j].cron_expression

\* C5: once the signal handler has run the loop has stopped and no further job
\* is submitted to the executor; a signal that arrives during the sleep stops
\* the loop in that very step, whatever is due.
C5_NoDispatchAfterSignal ==
  [][/\ signum # 0 => (LoopStopped /\ Len(queue') <= Len(queue))
     /\ (signum = 0 /\ signum' # 0 /\ pc = "sleep")
          => (LoopStopped' /\ queue' = queue)]_vars

\* the signal arrived during the sleep while a job was already due
C5_Witness ==
  /\ signum # 0
  /\ interrupted_at = "sleep"
  /\ LoopStopped
  /\ \E j \in Jobs : Due(j) <= now

\* C6 as stated: after a termination signal the process exits without waiting
\* for dispatched runs, so while the executor is being left the exit is
\* possible whatever is still running or queued.
C6_AbruptShutdown ==
  pc = "shutdown" => ENABLED ProcessExit

\* C6 (amended): after a single termination signal no further job is
\* submitted, but the process exits only once every run submitted before the
\* signal has been started and has finished; while a dispatched command is
\* still executing or queued the process has not exited.
C6_ExitWaitsForRuns ==
  /\ (pc = "exited" /\ signum # 0) => (queue = <<>> /\ NumRunning = 0)
  /\ (signum # 0 /\ (queue # <<>> \/ NumRunning > 0)) => pc = "shutdown"

\* the handler has run while one command executes and another run is queued
C6_Witness ==
  /\ signum # 0
  /\ pc = "shutdown"
  /\ NumRunning > 0
  /\ queue # <<>>

\* every job the sample has reached has been dispatched and rescheduled
CycleServed == \A j \in Jobs : Due(j) > current_time_timestamp

\* C7 as stated: the loop never stops in the middle of a dispatch pass: if it
\* has stopped after submitting some job of the cycle, every due job of that
\* cycle has been dispatched and rescheduled.
C7_StopOnlyAtSleep ==
  (LoopStopped /\ \E j \in Jobs : submitted_in_cycle[j] > 0) => CycleServed

\* C7 (amended): a termination signal stops the loop wherever the main thread
\* is, also in the middle of a dispatch pass; a cycle that reaches its sleep
\* has dispatched and rescheduled every due job, and a stopped loop with a due
\* job left unserved was interrupted by the signal during the scan.
C7_CompleteUnlessInterrupted ==
  /\ pc = "sleep" =>
       /\ CycleServed
       /\ \A j \in Jobs :
            due_at_wake[j] <= current_time_timestamp => submitted_in_cycle[j] = 1
  /\ (LoopStopped /\ ~CycleServed) =>
       (signum # 0 /\ interrupted_at \in {"check", "resched"})

\* the loop was stopped after a submit and before the update of the timestamp
C7_Witness ==
  /\ LoopStopped
  /\ interrupted_at = "resched"
  /\ submitted_in_cycle[i] = 1
  /\ Due(i) <= current_time_timestamp

\* C8: the main thread never waits for a command: outside the sleep it always
\* has a step to take, and a completed sleep can always return, however many
\* commands are executing or queued.
C8_LoopNeverBlocks ==
  /\ pc \in {"sample", "check", "resched"} => ENABLED MainThread
  /\ (pc = "sleep" /\ now >= wake_at) => ENABLED Wake

\* a job was submitted again while an earlier run of it is still executing,
\* in a cycle that also submitted another job
C8_Witness ==
  /\ pc = "resched"
  /\ running[cron_jobs[i].script] > 0
  /\ queue # <<>>
  /\ queue[Len(queue)] = cron_jobs[i].script
  /\ \E j \in Jobs : j # i /\ submitted_in_cycle[j] = 1

FailedOutcomes == {"not_found", "unsupported", "launch_failed", "nonzero"}

\* a step of a worker thread
WorkerStep == (queue # <<>> /\ queue' = Tail(queue)) \/ running' # running

\* C9: a failing run changes neither the position of the loop nor any job's
\* timestamp and does not put the job back in the queue; the running loop is
\* left only by the step of the signal handler.
C9_FailureStaysLocal ==
  [][/\ (WorkerStep /\ last_run'.outcome \in FailedOutcomes /\ last_run' # last_run)
          => /\ pc' = pc
             /\ cron_jobs' = cron_jobs
             /\ i' = i
             /\ Len(queue') <= Len(queue)
     /\ (InLoop /\ ~InLoop') => (signum = 0 /\ signum' # 0)]_vars

\* the loop is asleep after the only run so far has failed: nothing is queued
\* or executing, and every job waits for its next due time
C9_Witness ==
  /\ pc = "sleep"
  /\ last_run.outcome \in FailedOutcomes
  /\ queue = <<>>
  /\ NumRunning = 0
  /\ \A j \in Jobs : Due(j) > now

\* C10 as stated: a run whose command fails to launch or exits with a
\* non-zero status leaves an error entry in the log.
C10_FailureLogged ==
  last_run.outcome \in {"launch_failed", "nonzero"} => last_run.error_logged

\* C11: whether a due job is submitted depends only on the sampled time and
\* the job's timestamp: at the test of line 197 the submit is possible exactly
\* when the sample has reached the timestamp, whatever runs of that job are
\* still executing or queued.
C11_NoOverlapProtection ==
  (pc = "check" /\ i <= Len(cron_jobs)) =>
    (ENABLED SubmitJob <=> current_time_timestamp >= Due(i))

\* a job has been submitted while an earlier run of it is executing
C11_Witness ==
  /\ pc = "resched"
  /\ submitted_in_cycle[i] = 1
  /\ running[cron_jobs[i].script] > 0

\* C12 as stated: a long-running command never delays the start of another
\* dispatched run: whenever a run is queued a worker can start it.
C12_StartNeverDelayed ==
  (pc # "exited" /\ queue # <<>>) => ENABLED RunScriptLaunch

\* C12 (amended): the executor runs at most max_workers commands at a time;
\* runs dispatched beyond that wait in the work queue until a worker is free,
\* and below that limit a queued run can always be started.
C12_BoundedByWorkers ==
  /\ NumRunning <= MaxWorkers
  /\ (pc # "exited" /\ queue # <<>>) =>
       (ENABLED RunScriptLaunch <=> NumRunning < MaxWorkers)

\* every worker executes a command and a dispatched run waits in the queue
C12_Witness ==
  /\ NumRunning = MaxWorkers
  /\ queue # <<>>
  /\ InLoop

\* scripts of the environment whose expression is valid / invalid
ValidScripts == {s \in 1..NJobs : is_valid_cron(environ[s])}

\* C13: an expression that fails validation is never handed to the
\* next-occurrence computation, its job is not in the list and is never
\* queued or executed; once loading is over every valid definition is in the
\* list.
C13_InvalidExcluded ==
  /\ \A e \in cron_calls : is_valid_cron(e)
  /\ \A j \in Jobs : cron_jobs[j].script \in ValidScripts
  /\ \A m \in 1..Len(queue) : queue[m] \in ValidScripts
  /\ \A s \in 1..NJobs : running[s] > 0 => s \in ValidScripts
  /\ (pc \in {"main", "first"} \/ InLoop) =>
       {cron_jobs[j].script : j \in Jobs} = ValidScripts

\* one definition was rejected and the job of the valid one has been dispatched
C13_Witness ==
  /\ InLoop
  /\ ValidScripts # {}
  /\ ValidScripts # 1..NJobs
  /\ queue # <<>>

\* C14: with no valid job the process logs the diagnostic and exits with
\* status 1 without entering the loop: nothing was sampled, submitted, run or
\* slept; and the loop is only ever entered with a non-empty job list.
C14_EmptySetFatal ==
  /\ (pc = "first" \/ InLoop) => cron_jobs # <<>>
  /\ (cron_jobs = <<>> /\ pc # "load") => pc \in {"main", "exited"}
  /\ cron_jobs = <<>> =>
       /\ queue = <<>> /\ NumRunning = 0 /\ last_run = NoRun
       /\ i = 0 /\ next_job = 0 /\ ~woken
  /\ (pc = "exited" /\ signum = 0) =>
       /\ cron_jobs = <<>>
       /\ exit_code = 1
       /\ last_log.kind = "no_valid_jobs"

\* every definition was rejected and the process has exited with status 1
C14_Witness ==
  /\ pc = "exited"
  /\ signum = 0
  /\ ValidScripts = {}
  /\ exit_code = 1

\* C15 as stated: the "next execution" entry logged after a dispatch names the
\* job that was just dispatched and shows its newly computed timestamp.
C15_NextLogNamesDispatched ==
  [][(pc = "resched" /\ pc' = "check") =>
       last_log' = [kind |-> "next",
                    job |-> cron_jobs[i].script,
                    ts |-> cron_jobs'[i].next_execution_timestamp]]_vars

\* C16: a job's timestamp changes only in the loop's step of line 202, for the
\* job at hand, after that job was submitted in this cycle and for the first
\* time in the cycle; when the scan is over the jobs that were not due still
\* have the timestamp they had at the sample and the dispatched ones a new one.
C16_SingleWriter ==
  [][/\ \A j \in Jobs :
          cron_jobs'[j].next_execution_timestamp # Due(j) =>
            /\ pc = "resched" /\ i = j
            /\ submitted_in_cycle[j] = 1
            /\ Due(j) = due_at_wake[j]
            /\ due_at_wake[j] <= current_time_timestamp
     /\ (pc = "check" /\ pc' = "sleep") =>
          \A j \in Jobs :
            /\ submitted_in_cycle[j] = 0 => Due(j) = due_at_wake[j]
            /\ submitted_in_cycle[j] = 1 => Due(j) # due_at_wake[j]]_vars

\* after a scan one job has a new timestamp and a job that was not due has
\* kept its own, while a command is executing on a worker
C16_Witness ==
  /\ pc = "sleep"
  /\ NumRunning > 0
  /\ \E a, b \in Jobs :
       /\ submitted_in_cycle[a] = 1 /\ Due(a) # due_at_wake[a]
       /\ submitted_in_cycle[b] = 0 /\ Due(b) = due_at_wake[b]

\* C17: during a scan the jobs before the current list position have been
\* submitted exactly if they were due at the sample, the jobs after it not
\* yet: due jobs are submitted in list order, in every cycle.
C17_ListOrder ==
  pc \in {"check", "resched"} =>
    /\ i >= 1
    /\ \A m \in Jobs :
         /\ m < i => submitted_in_cycle[m] =
                       (IF due_at_wake[m] <= current_time_timestamp THEN 1 ELSE 0)
         /\ m = i => submitted_in_cycle[m] = (IF pc = "resched" THEN 1 ELSE 0)
         /\ m > i => submitted_in_cycle[m] = 0

\* two jobs due at the same instant: the later one in the list is submitted
\* after the earlier one, in a cycle that follows a sleep
C17_Witness ==
  /\ pc = "resched"
  /\ woken
  /\ \E m \in Jobs :
       /\ m < i
       /\ submitted_in_cycle[m] = 1
       /\ due_at_wake[m] = due_at_wake[i]

\* C18 as stated: each job's first timestamp is the next occurrence counted
\* from the moment the scheduling loop is entered.
C18_FirstDueFromLoopEntry ==
  [][(pc = "first" /\ pc' = "sample") =>
       \A j \in Jobs :
         cron_jobs'[j].next_execution_timestamp =
           get_next(cron_jobs[j].cron_expression, now)]_vars

\* C18 (amended): each job's first timestamp is the next occurrence counted
\* from the moment its definition is loaded; it is not touched again before
\* the loop's first sample, and a job whose timestamp that sample has reached
\* is dispatched in the first cycle for that elapsed occurrence.
C18_FirstDueFromLoadTime ==
  [][/\ Len(cron_jobs') = Len(cron_jobs) + 1 =>
          LET job == cron_jobs'[Len(cron_jobs')]
              p == job.cron_expression
              d == job.next_execution_timestamp
          IN d > now /\ d % p = 0 /\ d - now <= p
     /\ (pc \in {"main", "first"} \/ (pc = "sample" /\ ~woken)) =>
          cron_jobs' = cron_jobs
     /\ (pc = "check" /\ pc' = "sleep" /\ ~woken) =>
          \A j \in Jobs :
            due_at_wake[j] <= current_time_timestamp => submitted_in_cycle[j] = 1]_vars

\* in the first cycle a job is dispatched whose occurrence, counted from its
\* load time, had elapsed before the first sample
C18_Witness ==
  /\ pc = "resched"
  /\ ~woken
  /\ submitted_in_cycle[i] = 1
  /\ Due(i) < current_time_timestamp

\* C19: when the loop sleeps every timestamp lies after the sampled time, the
\* duration is positive, and the sleep cannot complete before the earliest
\* timestamp; the loop wakes at or after it, so each cycle that follows a
\* completed sleep dispatches at least one job.
C19_SleepPositiveAndWakeDue ==
  /\ pc = "sleep" =>
       /\ \A j \in Jobs : Due(j) > current_time_timestamp
       /\ sleep_duration > 0
       /\ wake_at >= next_execution_time
       /\ woken => \E j \in Jobs : submitted_in_cycle[j] = 1
  /\ (pc = "sample" /\ woken) => now >= next_execution_time

\* after an earlier completed sleep the loop sleeps again, and since the scan
\* took time the sleep ends after the earliest timestamp
C19_Witness ==
  /\ pc = "sleep"
  /\ woken
  /\ wake_at > next_execution_time

\* a step adds a work item at the tail only, and removes the head only, by a
\* worker that starts that run
QueueFifo ==
  /\ Len(queue') > Len(queue) => queue' = Append(queue, queue'[Len(queue')])
  /\ Len(queue') < Len(queue) =>
       /\ queue' = Tail(queue)
       /\ pc' = pc
       /\ \/ running'[Head(queue)] = running[Head(queue)] + 1
          \/ last_run'.outcome \in {"not_found", "unsupported", "launch_failed"}

\* C20: the work queue is first-in first-out and loses an item only to a
\* worker that starts it; the process does not exit while a run is queued,
\* also after a signal; and, commands ending, every queued run is started.
C20_NoRunDropped ==
  /\ [][QueueFifo]_vars
  /\ [](pc = "exited" => queue = <<>>)
  /\ (queue # <<>>) ~> (queue = <<>>)

\* the signal arrived right after a submit; the process has exited with the
\* queue drained and the last command ended normally
C20_Witness ==
  /\ pc = "exited"
  /\ signum # 0
  /\ interrupted_at = "resched"
  /\ last_run.outcome = "ok"
====
